---- MODULE Spec2Model ----
(***************************************************************************)
(* Scope lifecycle of the clean-architecture template: the LIFESPAN and    *)
(* REQUEST scopes, the engine and session providers bound to them, the    *)
(* HTTP request path with its validation-error handlers, and the `db`     *)
(* command-line commands run through the `main` entrypoint wrapper.       *)
(***************************************************************************)
EXTENDS Integers, Sequences, FiniteSets, TLC

\* ---------------------------------------------------------------- bounds
MaxReq == 2
MaxLifespans == 1
MaxErrors == 2
MaxRuns == 2

\* ------------------------------------------------------------- constants
HTTP_422_UNPROCESSABLE_ENTITY == 422

Tasks == 1 .. MaxReq
CliTask == 1

VARIABLES
    mode,       \* "server" (main.py else-branch) or "cli" (main.py __main__)
    profile,    \* "prod", or "test" when conftest.py loaded the test profile
    lifespan,   \* the shared LIFESPAN scope of the process
    req,        \* the REQUEST scope and unit of work of each task
    engines,    \* every AsyncEngine built by _engine_factory
    sessions,   \* every AsyncSession built by a session factory
    cli,        \* the command being run through `main`
    admin,      \* what _template1_execute did during the current command
    databases,  \* the databases that exist on the server
    prev        \* the previous command's outcome

vars == <<mode, profile, lifespan, req, engines, sessions, cli, admin, databases, prev>>

\* ------------------------------------------------------- scope instances

\* src/settings.py: the two scope tags.
Scope == {"LIFESPAN", "REQUEST"}

NoLifespan ==
    [phase |-> "closed", inst |-> 0, engine |-> 0, session |-> 0,
     stack |-> <<>>, failed |-> FALSE]

NoRequest ==
    [pc |-> "idle", needs |-> {}, inst |-> 0, session |-> 0,
     cache |-> 0, stack |-> <<>>, exc |-> "none", nerr |-> 0,
     resp |-> [status |-> -1, key |-> "", errors |-> <<>>]]

\* The container's state that the providers read and write.
World == [ls |-> lifespan, engines |-> engines, sessions |-> sessions]

\* lifespan(): adefine_scope(Scope.LIFESPAN, kind="shared") entered: a new
\* instance with an empty cache and an empty exit stack.
LifespanEnter(ls) ==
    [phase |-> "open", inst |-> ls.inst + 1, engine |-> 0, session |-> 0,
     stack |-> <<>>, failed |-> FALSE]

\* lifespan(): what happens on entry, in order.
LifespanEnterEvents == <<"load", "lifespan_open">>

\* ------------------------------------------------------------- providers

\* _engine_factory up to its yield: create_async_engine(...).
NewEngine(inst) == [inst |-> inst, disposals |-> 0]

\* _engine_factory after its yield: finally: await engine.dispose().
EngineFactoryExit(e) == [e EXCEPT !.disposals = @ + 1]

\* A faulty variant: the engine is rebuilt on every resolution.
ScopedEngineNoCache(w) ==
    IF w.ls.phase # "open"
    THEN [ok |-> FALSE, id |-> 0, w |-> w]
    ELSE LET id == Len(w.engines) + 1
         IN  [ok |-> TRUE, id |-> id,
              w |-> [w EXCEPT !.engines = Append(@, NewEngine(w.ls.inst)),
                              !.ls.engine = id,
                              !.ls.stack = Append(@, [kind |-> "engine", id |-> id])]]

\* A faulty variant: the engine is built even when no LIFESPAN scope is active.
ScopedEngineNoScopeCheck(w) ==
    IF w.ls.phase = "open" /\ w.ls.engine # 0
    THEN [ok |-> TRUE, id |-> w.ls.engine, w |-> w]
    ELSE LET id == Len(w.engines) + 1
         IN  [ok |-> TRUE, id |-> id,
              w |-> [w EXCEPT !.engines = Append(@, NewEngine(w.ls.inst)),
                              !.ls.engine = id,
                              !.ls.stack = Append(@, [kind |-> "engine", id |-> id])]]

\* @scoped(Scope.LIFESPAN) on _engine_factory: resolution needs an active
\* LIFESPAN scope; the first resolution in an instance runs the factory,
\* caches the engine and registers its cleanup; later ones get the cache.
ScopedEngine(w) ==
    IF w.ls.phase # "open"
    THEN [ok |-> FALSE, id |-> 0, w |-> w]
    ELSE IF w.ls.engine # 0
    THEN [ok |-> TRUE, id |-> w.ls.engine, w |-> w]
    ELSE LET id == Len(w.engines) + 1
         IN  [ok |-> TRUE, id |-> id,
              w |-> [w EXCEPT !.engines = Append(@, NewEngine(w.ls.inst)),
                              !.ls.engine = id,
                              !.ls.stack = Append(@, [kind |-> "engine", id |-> id])]]

\* AsyncSession(engine) entered and session.begin() entered: an open session
\* with an active transaction.
NewSession(engine, scope, inst) ==
    [engine |-> engine, scope |-> scope, inst |-> inst, txn |-> "active",
     ends |-> 0, closes |-> 0]

\* session.begin() left: commit when the block ended normally and the
\* transaction is still active, rollback when it ended with an exception.
TxnExit(s, failed) ==
    IF s.txn # "active" THEN s
    ELSE [s EXCEPT !.txn = IF failed THEN "rolledback" ELSE "committed",
                   !.ends = @ + 1]

\* transaction.rollback()
TxnRollback(s) ==
    IF s.txn # "active" THEN s
    ELSE [s EXCEPT !.txn = "rolledback", !.ends = @ + 1]

\* AsyncSession left: the session is closed.
SessionClose(s) == [s EXCEPT !.closes = @ + 1]

\* A faulty variant: the transaction is committed whatever the outcome.
SessionFactoryExitAlwaysCommit(s, failed) == SessionClose(TxnExit(s, FALSE))

\* _session_factory after its yield: both context managers are left.
SessionFactoryExit(s, failed) == SessionClose(TxnExit(s, failed))

\* A faulty variant: the test factory without its finally block.
SessionTestFactoryExitNoRollback(s, failed) == SessionClose(TxnExit(s, failed))

\* _session_test_factory after its yield: finally: transaction.rollback(),
\* then both context managers are left.
SessionTestFactoryExit(s, failed) == SessionClose(TxnExit(TxnRollback(s), failed))

\* @scoped(Scope.REQUEST) on _session_factory: one session per REQUEST scope
\* instance, bound to the engine resolved from the LIFESPAN scope.
ScopedSession(w, rq) ==
    IF rq.cache # 0
    THEN [ok |-> TRUE, id |-> rq.cache, w |-> w, rq |-> rq]
    ELSE LET e == ScopedEngine(w)
             id == Len(e.w.sessions) + 1
         IN  IF ~e.ok
             THEN [ok |-> FALSE, id |-> 0, w |-> e.w, rq |-> rq]
             ELSE [ok |-> TRUE, id |-> id,
                   w |-> [e.w EXCEPT !.sessions =
                             Append(@, NewSession(e.id, "REQUEST", e.w.ls.inst))],
                   rq |-> [rq EXCEPT !.cache = id,
                             !.stack = Append(@, [kind |-> "session", id |-> id])]]

\* A faulty variant: the test session is bound to the REQUEST scope.
TestScopedSessionPerRequest(w, rq) ==
    IF rq.cache # 0
    THEN [ok |-> TRUE, id |-> rq.cache, w |-> w, rq |-> rq]
    ELSE LET e == ScopedEngine(w)
             id == Len(e.w.sessions) + 1
         IN  IF ~e.ok
             THEN [ok |-> FALSE, id |-> 0, w |-> e.w, rq |-> rq]
             ELSE [ok |-> TRUE, id |-> id,
                   w |-> [e.w EXCEPT !.sessions =
                             Append(@, NewSession(e.id, "LIFESPAN", e.w.ls.inst))],
                   rq |-> [rq EXCEPT !.cache = id,
                             !.stack = Append(@, [kind |-> "session", id |-> id])]]

\* @test_scoped(Scope.LIFESPAN) on _session_test_factory: one session per
\* LIFESPAN scope instance, cached and cleaned up by that instance.
TestScopedSession(w, rq) ==
    IF w.ls.phase # "open"
    THEN [ok |-> FALSE, id |-> 0, w |-> w, rq |-> rq]
    ELSE IF w.ls.session # 0
    THEN [ok |-> TRUE, id |-> w.ls.session, w |-> w, rq |-> rq]
    ELSE LET e == ScopedEngine(w)
             id == Len(e.w.sessions) + 1
         IN  [ok |-> TRUE, id |-> id,
              w |-> [e.w EXCEPT !.sessions =
                        Append(@, NewSession(e.id, "LIFESPAN", e.w.ls.inst)),
                        !.ls.session = id,
                        !.ls.stack = Append(@, [kind |-> "session", id |-> id])],
              rq |-> rq]

\* load_test_profile(): under the test profile the test provider is the
\* resolvable source of AsyncSession.
SessionProvider(w, rq) ==
    IF profile = "test" THEN TestScopedSession(w, rq) ELSE ScopedSession(w, rq)

\* entrypoint.inject() / the handler's injected parameters: the declared
\* dependencies are resolved, the engine before the session; a failed
\* resolution raises out of the unit of work.
Inject(w, rq) ==
    LET here == IF w.ls.phase = "open" THEN w.ls.inst ELSE 0
        e == IF "engine" \in rq.needs
             THEN ScopedEngine(w)
             ELSE [ok |-> TRUE, id |-> 0, w |-> w]
        s == IF e.ok /\ "session" \in rq.needs
             THEN SessionProvider(e.w, rq)
             ELSE [ok |-> e.ok, id |-> 0, w |-> e.w, rq |-> rq]
    IN  [w |-> s.w,
         rq |-> IF s.ok
                THEN [s.rq EXCEPT !.pc = "running", !.needs = {}, !.inst = here,
                                  !.session = s.id]
                ELSE [s.rq EXCEPT !.pc = "closing", !.needs = {}, !.inst = here,
                                  !.exc = "ScopeUndefinedError"]]

\* ---------------------------------------------------------------- teardown

\* One cleanup of an exit stack: the provider's code after its yield.
ExitEntry(w, entry, failed) ==
    IF entry.kind = "engine"
    THEN [w EXCEPT !.engines[entry.id] = EngineFactoryExit(@)]
    ELSE [w EXCEPT !.sessions[entry.id] =
             IF @.scope = "REQUEST"
             THEN SessionFactoryExit(@, failed)
             ELSE SessionTestFactoryExit(@, failed)]

\* What a cleanup is seen to do, for the command's event log.
ExitEvents(w, entry) ==
    IF entry.kind = "engine"
    THEN <<"engine_dispose">>
    ELSE <<IF w.sessions[entry.id].txn = "committed" THEN "txn_commit" ELSE "txn_rollback",
           "session_close">>

\* The exit stack of a scope instance runs its cleanups in reverse order of
\* creation.
NextEntry(stack) == Len(stack)

Without(stack, i) == [k \in 1 .. Len(stack) - 1 |-> IF k < i THEN stack[k] ELSE stack[k + 1]]

\* All the cleanups of a scope instance that is closed in one go, with the
\* events they are seen to make.
RECURSIVE RunCleanups(_, _, _)
RunCleanups(w, stack, failed) ==
    IF stack = <<>>
    THEN [w |-> w, events |-> <<>>]
    ELSE LET i == NextEntry(stack)
             w1 == ExitEntry(w, stack[i], failed)
             rest == RunCleanups(w1, Without(stack, i), failed)
         IN  [w |-> rest.w, events |-> ExitEvents(w1, stack[i]) \o rest.events]

SetWorld(w) ==
    /\ lifespan' = w.ls
    /\ engines' = w.engines
    /\ sessions' = w.sessions

\* ------------------------------------------------- validation responses

\* The error details a failed validation holds: entry i of the list.
RawError(i) ==
    [type |-> IF i = 1 THEN "missing" ELSE "int_parsing",
     loc |-> IF i = 1 THEN "body.name" ELSE "body.age",
     msg |-> IF i = 1 THEN "Field required" ELSE "Input should be a valid integer",
     input |-> IF i = 1 THEN "raw-body" ELSE "raw-age",
     ctx |-> "context",
     url |-> "https://errors.pydantic.dev/"]

RawErrors(n) == [i \in 1 .. n |-> RawError(i)]

ErrorKeys(include_url, include_context, include_input) ==
    {"type", "loc", "msg"}
        \cup (IF include_url THEN {"url"} ELSE {})
        \cup (IF include_context THEN {"ctx"} ELSE {})
        \cup (IF include_input THEN {"input"} ELSE {})

\* pydantic's ValidationError.errors(include_url, include_context, include_input)
Errors(raw, include_url, include_context, include_input) ==
    [i \in 1 .. Len(raw) |->
        [k \in ErrorKeys(include_url, include_context, include_input) |-> raw[i][k]]]

\* The handler of pydantic.ValidationError.
ValidationErrorHandler(raw) ==
    [status |-> HTTP_422_UNPROCESSABLE_ENTITY,
     key |-> "errors",
     errors |-> Errors(raw, FALSE, TRUE, FALSE)]

\* The handler of fastapi's ValidationException: exception.errors() is the
\* list the framework stored, pydantic's errors without their URL only.
ValidationExceptionHandler(raw) ==
    [status |-> HTTP_422_UNPROCESSABLE_ENTITY,
     key |-> "errors",
     errors |-> Errors(raw, FALSE, TRUE, TRUE)]

\* The response of a finished request: the exception handlers build() adds,
\* the framework's answer otherwise.
Respond(exc, nerr) ==
    CASE exc = "ValidationError" -> ValidationErrorHandler(RawErrors(nerr))
      [] exc = "ValidationException" -> ValidationExceptionHandler(RawErrors(nerr))
      [] exc = "none" -> [status |-> 200, key |-> "", errors |-> <<>>]
      [] exc = "CancelledError" -> [status |-> 0, key |-> "", errors |-> <<>>]
      [] OTHER -> [status |-> 500, key |-> "", errors |-> <<>>]

\* ------------------------------------------------------- the HTTP server

UnchangedCli == UNCHANGED <<mode, profile, cli, admin, databases, prev>>

\* _fastapi_lifespan: the server's startup enters lifespan(profile).
Startup ==
    /\ mode = "server"
    /\ lifespan.phase = "closed"
    /\ lifespan.inst < MaxLifespans
    /\ lifespan' = LifespanEnter(lifespan)
    /\ UNCHANGED <<req, engines, sessions>>
    /\ UnchangedCli

\* The phase of a LIFESPAN scope instance that is being left: gone once its
\* last cleanup has run.
Leaving(ls) ==
    IF ls.stack = <<>>
    THEN [ls EXCEPT !.phase = "closed", !.engine = 0, !.session = 0]
    ELSE [ls EXCEPT !.phase = "closing"]

\* The server's shutdown leaves lifespan(profile): the scope is unbound, its
\* cleanups are still to run.
Shutdown ==
    /\ mode = "server"
    /\ lifespan.phase = "open"
    /\ \E failed \in BOOLEAN :
          lifespan' = Leaving([lifespan EXCEPT !.failed = failed])
    /\ UNCHANGED <<req, engines, sessions>>
    /\ UnchangedCli

\* One cleanup of the closing LIFESPAN scope instance.
LifespanTeardown ==
    /\ mode = "server"
    /\ lifespan.phase = "closing"
    /\ LET i == NextEntry(lifespan.stack)
           w == ExitEntry([World EXCEPT !.ls.stack = Without(@, i)],
                          lifespan.stack[i], lifespan.failed)
       IN  SetWorld([w EXCEPT !.ls = Leaving(@)])
    /\ UNCHANGED req
    /\ UnchangedCli

\* _request_scope: a request arrives and its REQUEST scope is opened; the
\* handler declares which of the engine and the session it needs.  Tasks are
\* taken in order.
ReqOpen(t) ==
    /\ mode = "server"
    /\ req[t].pc = "idle"
    /\ IF t = 1 THEN TRUE ELSE req[t - 1].pc # "idle"
    /\ \E needs \in SUBSET {"engine", "session"} :
          req' = [req EXCEPT ![t] = [NoRequest EXCEPT !.pc = "open", !.needs = needs]]
    /\ UNCHANGED <<lifespan, engines, sessions>>
    /\ UnchangedCli

\* The handler's dependencies are resolved.
ReqInject(t) ==
    /\ mode = "server"
    /\ req[t].pc = "open"
    /\ LET r == Inject(World, req[t])
       IN  /\ SetWorld(r.w)
           /\ req' = [req EXCEPT ![t] = r.rq]
    /\ UnchangedCli

\* The unit of work ends: normally, by raising, or cancelled.  The REQUEST
\* scope is unbound, its cleanups are still to run.
ReqEnd(t) ==
    /\ mode = "server"
    /\ req[t].pc = "running"
    /\ \E exc \in {"none", "Error", "CancelledError"} :
          req' = [req EXCEPT ![t].pc = "closing", ![t].exc = exc]
    /\ UNCHANGED <<lifespan, engines, sessions>>
    /\ UnchangedCli

\* The REQUEST scope instance runs its cleanups and is gone; the response
\* is built.
ReqClose(t) ==
    /\ mode = "server"
    /\ req[t].pc = "closing"
    /\ SetWorld(RunCleanups(World, req[t].stack, req[t].exc # "none").w)
    /\ req' = [req EXCEPT ![t].pc = "done", ![t].cache = 0, ![t].stack = <<>>,
                          ![t].resp = Respond(req[t].exc, req[t].nerr)]
    /\ UnchangedCli

\* ------------------------------------------------------ the `db` commands

\* settings.db.name, the default of both commands.
SettingsDbName == "app"

\* The database_name argument: "" is the argument left out.
DbArgs == {"", "other"}

DbNames == {SettingsDbName} \cup (DbArgs \ {""})

\* name = database_name or settings.db.name.get_secret_value()
NameOf(arg) == IF arg = "" THEN SettingsDbName ELSE arg

\* What can go wrong on the server's side besides the statement's own error.
Faults == {"none", "connection_failure", "permission_denied"}

NoAdmin == [engines |-> <<>>, connections |-> 0, stmts |-> <<>>]

\* sqlalchemy.exc: ProgrammingError is a DBAPIError; a failed connect raises
\* the driver's OSError, which is neither.
IsInstance(cls, handler) ==
    \/ cls = handler
    \/ cls = "ProgrammingError" /\ handler = "DBAPIError"

\* connection.execute(statement) on the server: CREATE DATABASE of an existing
\* name and DROP DATABASE of a missing one fail; a denied statement fails
\* with the access-rule error, a ProgrammingError.
Execute(stmt, fault, dbs) ==
    CASE fault = "permission_denied" ->
            [raised |-> "ProgrammingError", cause |-> "insufficient_privilege", dbs |-> dbs]
      [] stmt.op = "CREATE" /\ stmt.name \in dbs ->
            [raised |-> "ProgrammingError", cause |-> "duplicate_database", dbs |-> dbs]
      [] stmt.op = "DROP" /\ stmt.name \notin dbs ->
            [raised |-> "DBAPIError", cause |-> "invalid_catalog_name", dbs |-> dbs]
      [] stmt.op = "CREATE" ->
            [raised |-> "none", cause |-> "none", dbs |-> dbs \cup {stmt.name}]
      [] OTHER ->
            [raised |-> "none", cause |-> "none", dbs |-> dbs \ {stmt.name}]

\* _template1_execute: an engine of its own on the maintenance database,
\* one connection, one statement.
Template1Execute(stmt, fault, dbs, adm) ==
    LET adm1 == [adm EXCEPT !.engines =
                    Append(@, [database |-> "template1",
                               isolation_level |-> "AUTOCOMMIT",
                               poolclass |-> "NullPool"])]
        adm2 == [adm1 EXCEPT !.connections = @ + 1, !.stmts = Append(@, stmt)]
        r == Execute(stmt, fault, dbs)
    IN  IF fault = "connection_failure"
        THEN [raised |-> "OSError", cause |-> "connection_failure",
              dbs |-> dbs, adm |-> adm1]
        ELSE [raised |-> r.raised, cause |-> r.cause, dbs |-> r.dbs, adm |-> adm2]

\* A faulty variant: only the failure of an existing database is reported as one.
CreateDbExceptDuplicateOnly(arg, fault, dbs, adm) ==
    LET name == NameOf(arg)
        r == Template1Execute([op |-> "CREATE", name |-> name], fault, dbs, adm)
    IN  CASE r.raised = "none" ->
                [out |-> <<"created">>, exc |-> "none", cause |-> r.cause,
                 dbs |-> r.dbs, adm |-> r.adm]
          [] r.cause = "duplicate_database" ->
                [out |-> <<>>, exc |-> "none", cause |-> r.cause,
                 dbs |-> r.dbs, adm |-> r.adm]
          [] OTHER ->
                [out |-> <<>>, exc |-> r.raised, cause |-> r.cause,
                 dbs |-> r.dbs, adm |-> r.adm]

\* create_db's body: try / except ProgrammingError / else.
CreateDb(arg, fault, dbs, adm) ==
    LET name == NameOf(arg)
        r == Template1Execute([op |-> "CREATE", name |-> name], fault, dbs, adm)
    IN  CASE r.raised = "none" ->
                [out |-> <<"created">>, exc |-> "none", cause |-> r.cause,
                 dbs |-> r.dbs, adm |-> r.adm]
          [] IsInstance(r.raised, "ProgrammingError") ->
                [out |-> <<"already_exists">>, exc |-> "none", cause |-> r.cause,
                 dbs |-> r.dbs, adm |-> r.adm]
          [] OTHER ->
                [out |-> <<>>, exc |-> r.raised, cause |-> r.cause,
                 dbs |-> r.dbs, adm |-> r.adm]

\* A faulty variant: the statement is run before the confirmation is read.
DropDbBeforeConfirm(arg, confirm, fault, dbs, adm) ==
    LET name == NameOf(arg)
        r == Template1Execute([op |-> "DROP", name |-> name], fault, dbs, adm)
    IN  IF ~confirm
        THEN [out |-> <<>>, exc |-> "none", cause |-> "none", dbs |-> r.dbs, adm |-> r.adm]
        ELSE CASE r.raised = "none" ->
                    [out |-> <<"deleted">>, exc |-> "none", cause |-> r.cause,
                     dbs |-> r.dbs, adm |-> r.adm]
              [] IsInstance(r.raised, "DBAPIError") ->
                    [out |-> <<"doesnt_exist">>, exc |-> "none", cause |-> r.cause,
                     dbs |-> r.dbs, adm |-> r.adm]
              [] OTHER ->
                    [out |-> <<>>, exc |-> r.raised, cause |-> r.cause,
                     dbs |-> r.dbs, adm |-> r.adm]

\* drop_db's body: the confirmation, then try / except DBAPIError / else.
DropDb(arg, confirm, fault, dbs, adm) ==
    LET name == NameOf(arg)
        r == Template1Execute([op |-> "DROP", name |-> name], fault, dbs, adm)
    IN  IF ~confirm
        THEN [out |-> <<>>, exc |-> "none", cause |-> "none", dbs |-> dbs, adm |-> adm]
        ELSE CASE r.raised = "none" ->
                    [out |-> <<"deleted">>, exc |-> "none", cause |-> r.cause,
                     dbs |-> r.dbs, adm |-> r.adm]
              [] IsInstance(r.raised, "DBAPIError") ->
                    [out |-> <<"doesnt_exist">>, exc |-> "none", cause |-> r.cause,
                     dbs |-> r.dbs, adm |-> r.adm]
              [] OTHER ->
                    [out |-> <<>>, exc |-> r.raised, cause |-> r.cause,
                     dbs |-> r.dbs, adm |-> r.adm]

\* A command that is not one of `db`: it may raise.
CustomBody(raises, dbs, adm) ==
    [out |-> <<>>, exc |-> IF raises THEN "Error" ELSE "none", cause |-> "none",
     dbs |-> dbs, adm |-> adm]

\* -------------------------------------------------- the `main` entrypoint

\* A faulty variant: the REQUEST scope is put around the lifespan.
MainLayersRequestOutside == <<"request", "lifespan", "inject">>

\* main: entrypoint.inject().decorate(adefine_scope(Scope.REQUEST))
\* .decorate(lifespan(settings.profile)): the layers around the command's
\* body, the outermost first.
MainLayers == <<"lifespan", "request", "inject">>

NoCli ==
    [pc |-> "idle", run |-> 0, depth |-> 0, cmd |-> "none", arg |-> "",
     confirm |-> FALSE, fault |-> "none", needs |-> {}, raises |-> FALSE,
     before |-> {}, events |-> <<>>, out |-> <<>>, cause |-> "none",
     exc |-> "none", status |-> -1]

NoPrev ==
    [cmd |-> "none", name |-> "", fault |-> "none", existed |-> FALSE, out |-> <<>>,
     status |-> -1, admin |-> NoAdmin, pooled |-> 0, dbs |-> {}]

\* What is kept of a finished command.
Summary ==
    [cmd |-> cli.cmd, name |-> NameOf(cli.arg), fault |-> cli.fault,
     existed |-> NameOf(cli.arg) \in cli.before, out |-> cli.out, status |-> cli.status,
     admin |-> admin, pooled |-> Len(engines), dbs |-> databases]

UnchangedEnv == UNCHANGED <<mode, profile>>

\* The command line is typed: a `db` command with its argument, or another
\* command with the dependencies it declares.  Each command is a new process.
CliInvoke ==
    /\ mode = "cli"
    /\ cli.pc \in {"idle", "exited"}
    /\ cli.run < MaxRuns
    /\ \E cmd \in {"create", "drop", "custom"}, arg \in DbArgs, confirm \in BOOLEAN,
          fault \in Faults, needs \in SUBSET {"engine", "session"}, raises \in BOOLEAN :
          /\ cmd = "create" => ~confirm /\ needs = {} /\ ~raises
          /\ cmd = "drop" => needs = {} /\ ~raises /\ (~confirm => fault = "none")
          /\ cmd = "custom" => arg = "" /\ ~confirm /\ fault = "none"
          /\ cli' = [NoCli EXCEPT !.pc = "entering", !.run = cli.run + 1, !.cmd = cmd,
                                  !.arg = arg, !.confirm = confirm, !.fault = fault,
                                  !.needs = needs, !.raises = raises,
                                  !.before = databases]
    /\ prev' = IF cli.pc = "exited" THEN Summary ELSE prev
    /\ lifespan' = NoLifespan
    /\ req' = [t \in Tasks |-> NoRequest]
    /\ engines' = <<>>
    /\ sessions' = <<>>
    /\ admin' = NoAdmin
    /\ UNCHANGED databases
    /\ UnchangedEnv

\* The next layer of `main` is entered.
CliEnter ==
    /\ mode = "cli"
    /\ cli.pc = "entering"
    /\ LET layer == MainLayers[cli.depth + 1]
           r == Inject(World, req[CliTask])
       IN  CASE layer = "lifespan" ->
                  /\ lifespan' = LifespanEnter(lifespan)
                  /\ cli' = [cli EXCEPT !.depth = @ + 1,
                                        !.events = @ \o LifespanEnterEvents]
                  /\ UNCHANGED <<req, engines, sessions>>
             [] layer = "request" ->
                  /\ req' = [req EXCEPT ![CliTask] =
                                [NoRequest EXCEPT !.pc = "open", !.needs = cli.needs]]
                  /\ cli' = [cli EXCEPT !.depth = @ + 1,
                                        !.events = Append(@, "request_open")]
                  /\ UNCHANGED <<lifespan, engines, sessions>>
             [] OTHER ->
                  /\ SetWorld(r.w)
                  /\ req' = [req EXCEPT ![CliTask] = r.rq]
                  /\ cli' = [cli EXCEPT
                                !.pc = IF r.rq.exc = "none" THEN "body" ELSE "exiting",
                                !.exc = r.rq.exc,
                                !.events = Append(@, "inject")]
    /\ UNCHANGED <<admin, databases, prev>>
    /\ UnchangedEnv

\* The command's body runs with its dependencies.
CliBody ==
    /\ mode = "cli"
    /\ cli.pc = "body"
    /\ LET r == CASE cli.cmd = "create" ->
                        CreateDb(cli.arg, cli.fault, databases, admin)
                  [] cli.cmd = "drop" ->
                        DropDb(cli.arg, cli.confirm, cli.fault, databases, admin)
                  [] OTHER -> CustomBody(cli.raises, databases, admin)
       IN  /\ cli' = [cli EXCEPT !.pc = "exiting", !.out = r.out, !.exc = r.exc,
                                 !.cause = r.cause, !.events = Append(@, "body")]
           /\ databases' = r.dbs
           /\ admin' = r.adm
           /\ req' = [req EXCEPT ![CliTask].pc = "closing", ![CliTask].exc = r.exc]
    /\ UNCHANGED <<lifespan, engines, sessions, prev>>
    /\ UnchangedEnv

\* The innermost entered layer of `main` is left: its scope instance runs
\* its cleanups.
CliLeave ==
    /\ mode = "cli"
    /\ cli.pc = "exiting"
    /\ cli.depth > 0
    /\ LET layer == MainLayers[cli.depth]
           failed == cli.exc # "none"
           rq == RunCleanups(World, req[CliTask].stack, failed)
           ls == RunCleanups(World, lifespan.stack, failed)
       IN  CASE layer = "request" ->
                  /\ SetWorld(rq.w)
                  /\ req' = [req EXCEPT ![CliTask].pc = "done", ![CliTask].stack = <<>>,
                                        ![CliTask].cache = 0, ![CliTask].needs = {}]
                  /\ cli' = [cli EXCEPT !.depth = @ - 1,
                                !.events = (@ \o rq.events) \o <<"request_close">>]
             [] layer = "lifespan" ->
                  /\ lifespan' = [ls.w.ls EXCEPT !.phase = "closed", !.stack = <<>>,
                                                 !.engine = 0, !.session = 0,
                                                 !.failed = failed]
                  /\ engines' = ls.w.engines
                  /\ sessions' = ls.w.sessions
                  /\ cli' = [cli EXCEPT !.depth = @ - 1,
                                !.events = (@ \o ls.events) \o <<"lifespan_close">>]
                  /\ UNCHANGED req
             [] OTHER ->
                  /\ cli' = [cli EXCEPT !.depth = @ - 1]
                  /\ UNCHANGED <<lifespan, req, engines, sessions>>
    /\ UNCHANGED <<admin, databases, prev>>
    /\ UnchangedEnv

\* uvloop.run returns or raises: the process ends with its exit status.
CliFinish ==
    /\ mode = "cli"
    /\ cli.pc = "exiting"
    /\ cli.depth = 0
    /\ cli' = [cli EXCEPT !.pc = "exited",
                          !.status = IF cli.exc = "none" THEN 0 ELSE 1,
                          !.events = Append(@, IF cli.exc = "none" THEN "return" ELSE "raise")]
    /\ UNCHANGED <<lifespan, req, engines, sessions, admin, databases, prev>>
    /\ UnchangedEnv

\* ------------------------------------------------------------ the system

Init ==
    /\ mode \in {"server", "cli"}
    /\ profile \in {"prod", "test"}
    /\ mode = "cli" => profile = "prod"
    /\ lifespan = NoLifespan
    /\ req = [t \in Tasks |-> NoRequest]
    /\ engines = <<>>
    /\ sessions = <<>>
    /\ cli = NoCli
    /\ admin = NoAdmin
    /\ databases \in SUBSET DbNames
    /\ mode = "server" => databases = {SettingsDbName}
    /\ prev = NoPrev

Next ==
    \/ Startup
    \/ Shutdown
    \/ LifespanTeardown
    \/ \E t \in Tasks : ReqOpen(t)
    \/ \E t \in Tasks : ReqInject(t)
    \/ \E t \in Tasks : ReqEnd(t)
    \/ \E t \in Tasks : ReqClose(t)
    \/ CliInvoke
    \/ CliEnter
    \/ CliBody
    \/ CliLeave
    \/ CliFinish

Spec == Init /\ [][Next]_vars

\* ------------------------------------------- the validation-error layer

\* A request whose handler declares no dependency arrives.
ApiOpen(t) ==
    /\ req[t].pc = "idle"
    /\ req' = [req EXCEPT ![t] = [NoRequest EXCEPT !.pc = "open"]]
    /\ UNCHANGED <<lifespan, engines, sessions>>
    /\ UnchangedCli

\* The request ends: normally, with one of the two validation errors and its
\* list of error details, or with another exception.
ApiEnd(t) ==
    /\ req[t].pc = "open"
    /\ \E exc \in {"none", "Error", "ValidationError", "ValidationException"} :
       \E n \in 0 .. MaxErrors :
          /\ (n > 0) <=> (exc \in {"ValidationError", "ValidationException"})
          /\ req' = [req EXCEPT ![t].pc = "closing", ![t].exc = exc, ![t].nerr = n]
    /\ UNCHANGED <<lifespan, engines, sessions>>
    /\ UnchangedCli

InitApi ==
    /\ Init
    /\ mode = "server"
    /\ profile = "prod"

NextApi ==
    \/ \E t \in Tasks : ApiOpen(t)
    \/ \E t \in Tasks : ApiEnd(t)
    \/ \E t \in Tasks : ReqClose(t)

SpecApi == InitApi /\ [][NextApi]_vars

\* ---------------------------------------------------------------- claims

Disposed(e) == engines[e].disposals > 0

RequestSessions(t) ==
    IF req[t].session # 0 /\ sessions[req[t].session].scope = "REQUEST"
    THEN {req[t].session} ELSE {}

\* C1: two REQUEST scopes active at once in the same LIFESPAN scope instance
\* hold different sessions bound to one and the same engine, and no LIFESPAN
\* scope instance ever has more than one engine built for it.
C1_SharedEngineDistinctSessions ==
    /\ \A i, j \in 1 .. Len(engines) :
          engines[i].inst = engines[j].inst => i = j
    /\ profile = "prod" =>
          \A t1, t2 \in Tasks :
              ( /\ t1 # t2
                /\ req[t1].pc = "running" /\ req[t2].pc = "running"
                /\ req[t1].inst # 0 /\ req[t1].inst = req[t2].inst
                /\ req[t1].session # 0 /\ req[t2].session # 0 )
              => /\ req[t1].session # req[t2].session
                 /\ sessions[req[t1].session].engine = sessions[req[t2].session].engine
                 /\ engines[sessions[req[t1].session].engine].inst = req[t1].inst

C1_Witness ==
    /\ profile = "prod"
    /\ \E t1, t2 \in Tasks :
          /\ t1 # t2
          /\ req[t1].pc = "running" /\ req[t2].pc = "running"
          /\ req[t1].inst # 0 /\ req[t1].inst = req[t2].inst
          /\ req[t1].session # 0 /\ req[t2].session # 0
          /\ req[t1].session # req[t2].session

\* C2: a REQUEST scope that has ended has its session closed, once, and its
\* transaction ended, once: committed when the unit of work ended normally,
\* rolled back when it raised or was cancelled.
C2_CommitOrRollbackThenClose ==
    \A t \in Tasks :
        req[t].pc = "done" =>
            \A s \in RequestSessions(t) :
                /\ sessions[s].closes = 1
                /\ sessions[s].ends = 1
                /\ sessions[s].txn =
                      IF req[t].exc = "none" THEN "committed" ELSE "rolledback"

C2_Witness ==
    \E t1, t2 \in Tasks :
        /\ req[t1].pc = "done" /\ req[t1].exc = "CancelledError"
        /\ RequestSessions(t1) # {}
        /\ sessions[req[t1].session].txn = "rolledback"
        /\ req[t2].pc = "done" /\ req[t2].exc = "none"
        /\ RequestSessions(t2) # {}
        /\ sessions[req[t2].session].txn = "committed"

\* The events of a command run through `main`, given what it resolved and
\* how its body ended.
ExpectedEvents(hasSession, hasEngine, raised) ==
    <<"load", "lifespan_open", "request_open", "inject", "body">>
        \o (IF hasSession
            THEN <<IF raised THEN "txn_rollback" ELSE "txn_commit", "session_close">>
            ELSE <<>>)
        \o <<"request_close">>
        \o (IF hasEngine THEN <<"engine_dispose">> ELSE <<>>)
        \o <<"lifespan_close", IF raised THEN "raise" ELSE "return">>

\* C3: a command run through `main` has, when its process ends, loaded the
\* packages, opened the LIFESPAN scope, opened the REQUEST scope, resolved
\* its dependencies, run its body, closed the REQUEST scope (transaction
\* ended, session closed) and closed the LIFESPAN scope (engine disposed),
\* in that order; a body that raised has its exception reach the caller
\* last, after the rollback and the engine's disposal.
C3_EntrypointOrder ==
    cli.pc = "exited" =>
        /\ cli.events = ExpectedEvents(req[CliTask].session # 0,
                                       Len(engines) > 0,
                                       cli.exc # "none")
        /\ lifespan.phase = "closed"
        /\ req[CliTask].pc = "done"
        /\ \A e \in 1 .. Len(engines) : engines[e].disposals = 1
        /\ \A s \in 1 .. Len(sessions) :
              /\ sessions[s].closes = 1
              /\ sessions[s].txn = IF cli.exc = "none" THEN "committed" ELSE "rolledback"
        /\ (cli.status # 0) <=> (cli.exc # "none")

C3_Witness ==
    /\ cli.pc = "exited"
    /\ cli.exc = "Error"
    /\ req[CliTask].session # 0
    /\ sessions[req[CliTask].session].txn = "rolledback"
    /\ Disposed(sessions[req[CliTask].session].engine)

\* C4: under the test profile no session's transaction is ever committed:
\* once the test session is torn down its transaction is rolled back,
\* whether the LIFESPAN scope was left normally or with an exception.
C4_TestSessionAlwaysRolledBack ==
    profile = "test" =>
        \A s \in 1 .. Len(sessions) :
            /\ sessions[s].txn # "committed"
            /\ sessions[s].closes > 0 => sessions[s].txn = "rolledback"
            /\ (lifespan.phase = "closed" /\ sessions[s].inst <= lifespan.inst)
                  => sessions[s].closes > 0

C4_Witness ==
    /\ profile = "test"
    /\ lifespan.phase = "closed"
    /\ ~lifespan.failed
    /\ \E t \in Tasks :
          /\ req[t].pc = "done" /\ req[t].exc = "none" /\ req[t].session # 0
          /\ sessions[req[t].session].txn = "rolledback"
          /\ sessions[req[t].session].closes = 1

\* C5: when a unit of work in an open REQUEST scope resolves the engine or
\* the session while no LIFESPAN scope instance is active, the resolution
\* fails with the scope-undefined error and builds nothing: the engines and
\* the sessions are what they were.
C5_NoLifespanNoEngine ==
    [][ \A t \in Tasks :
          ( /\ req[t].pc = "open"
            /\ req'[t].pc # "open"
            /\ req[t].needs # {}
            /\ lifespan.phase # "open" )
          => /\ req'[t].pc = "closing"
             /\ req'[t].exc = "ScopeUndefinedError"
             /\ req'[t].session = 0
             /\ engines' = engines
             /\ sessions' = sessions
             /\ lifespan' = lifespan ]_vars

C5_Witness ==
    \E t \in Tasks :
        /\ req[t].pc = "closing"
        /\ req[t].exc = "ScopeUndefinedError"
        /\ req[t].inst = 0
        /\ engines = <<>>

\* C6: every 422 response has a body {"errors": [...]} none of whose entries
\* holds the raw input or a URL.
C6_NoInputEcho ==
    \A t \in Tasks :
        req[t].resp.status = HTTP_422_UNPROCESSABLE_ENTITY =>
            /\ req[t].resp.key = "errors"
            /\ \A i \in 1 .. Len(req[t].resp.errors) :
                  /\ "input" \notin DOMAIN req[t].resp.errors[i]
                  /\ "url" \notin DOMAIN req[t].resp.errors[i]

\* C7: a `db create` or `db drop` whose statement failed for another reason
\* than the database existing (create) or missing (drop) prints nothing and
\* ends with a failure status, having issued the statement at most once.
C7_OtherErrorsPropagate ==
    ( /\ cli.pc = "exited"
      /\ cli.cmd \in {"create", "drop"}
      /\ cli.cause \notin {"none", IF cli.cmd = "create"
                                    THEN "duplicate_database"
                                    ELSE "invalid_catalog_name"} )
    => /\ cli.out = <<>>
       /\ cli.exc # "none"
       /\ cli.status # 0
       /\ Len(admin.stmts) <= 1

\* C8: a declined `db drop` builds no engine, opens no connection, issues no
\* statement, leaves the databases as they were and prints nothing; it ends
\* with status 0 after both scopes are closed.
C8_DeclinedDropDoesNothing ==
    (cli.cmd = "drop" /\ ~cli.confirm) =>
        /\ admin = NoAdmin
        /\ engines = <<>>
        /\ databases = cli.before
        /\ cli.out = <<>>
        /\ cli.pc = "exited" =>
              /\ cli.status = 0
              /\ lifespan.phase = "closed"
              /\ req[CliTask].pc = "done"
              /\ cli.events = ExpectedEvents(FALSE, FALSE, FALSE)

C8_Witness ==
    /\ cli.pc = "exited"
    /\ cli.cmd = "drop"
    /\ ~cli.confirm
    /\ NameOf(cli.arg) \in databases

OneAdminStatement(adm, op, name) ==
    /\ adm.stmts = <<[op |-> op, name |-> name]>>
    /\ adm.connections = 1
    /\ adm.engines = <<[database |-> "template1", isolation_level |-> "AUTOCOMMIT",
                        poolclass |-> "NullPool"]>>

\* C9: `db create` of a missing database, run twice with nothing else going
\* wrong: the first run creates it and prints the success message, the
\* second leaves it, prints the warning and ends with status 0; each run
\* issues one CREATE DATABASE over an autocommit connection of its own to
\* template1, and builds no LIFESPAN engine.
C9_CreateTwice ==
    ( /\ cli.pc = "exited"
      /\ cli.cmd = "create" /\ prev.cmd = "create"
      /\ prev.name = NameOf(cli.arg)
      /\ ~prev.existed
      /\ prev.fault = "none" /\ cli.fault = "none" )
    => /\ prev.out = <<"created">>
       /\ prev.status = 0
       /\ prev.name \in prev.dbs
       /\ OneAdminStatement(prev.admin, "CREATE", prev.name)
       /\ prev.pooled = 0
       /\ cli.out = <<"already_exists">>
       /\ cli.status = 0
       /\ databases = prev.dbs
       /\ OneAdminStatement(admin, "CREATE", prev.name)
       /\ engines = <<>>

C9_Witness ==
    /\ cli.pc = "exited"
    /\ cli.cmd = "create" /\ prev.cmd = "create"
    /\ prev.name = NameOf(cli.arg)
    /\ ~prev.existed
    /\ prev.fault = "none" /\ cli.fault = "none"
    /\ cli.out = <<"already_exists">>

\* C10: under the test profile the session belongs to the LIFESPAN scope:
\* every REQUEST scope of one LIFESPAN scope instance gets the same session;
\* while that instance is open the session stays open with its transaction
\* active, whatever REQUEST scopes have closed; its transaction is ended once
\* and it is closed once, by a rollback, before its engine is disposed, and
\* both are done when the LIFESPAN scope instance is gone.
C10_TestSessionLifespanBound ==
    profile = "test" =>
        /\ \A t1, t2 \in Tasks :
              ( /\ req[t1].inst # 0 /\ req[t1].inst = req[t2].inst
                /\ req[t1].session # 0 /\ req[t2].session # 0 )
              => req[t1].session = req[t2].session
        /\ \A s \in 1 .. Len(sessions) :
              /\ sessions[s].ends <= 1
              /\ sessions[s].closes <= 1
              /\ (lifespan.phase = "open" /\ lifespan.inst = sessions[s].inst)
                    => sessions[s].txn = "active" /\ sessions[s].closes = 0
              /\ Disposed(sessions[s].engine)
                    => sessions[s].txn = "rolledback" /\ sessions[s].closes = 1
              /\ (lifespan.phase = "closed" /\ sessions[s].inst <= lifespan.inst)
                    => /\ sessions[s].txn = "rolledback"
                       /\ sessions[s].ends = 1
                       /\ sessions[s].closes = 1
                       /\ Disposed(sessions[s].engine)

C10_Witness ==
    /\ profile = "test"
    /\ lifespan.phase = "closed"
    /\ \E t1, t2 \in Tasks :
          /\ t1 # t2
          /\ req[t1].pc = "done" /\ req[t2].pc = "done"
          /\ req[t1].session # 0 /\ req[t1].session = req[t2].session
          /\ sessions[req[t1].session].txn = "rolledback"
          /\ Disposed(sessions[req[t1].session].engine)

====
